---- MODULE Spec2Model ----
(***************************************************************************)
(* Model of the authorization core of odyssey-mobile-v2: the two zustand   *)
(* stores (useAgentStore, useSessionStore) over expo-secure-store, the     *)
(* screens' handlers that drive them (PairAgentScreen, AgentDetailScreen,  *)
(* SessionDetailScreen) and the session API client.                        *)
(*                                                                         *)
(* JavaScript runs one callback at a time: every action below is the code  *)
(* that runs between two suspension points (an await of SecureStore or of  *)
(* fetch).  An async store operation is a call step, which takes the get() *)
(* snapshot and issues the storage call, and a completion step, in which   *)
(* the storage call resolves or rejects and the continuation runs.         *)
(***************************************************************************)
EXTENDS Integers, Sequences, FiniteSets, TLC

VARIABLES
    agents,          \* useAgentStore.agents
    agentsLoading,   \* useAgentStore.isLoading
    agentsError,     \* useAgentStore.error
    sessions,        \* useSessionStore.sessions
    sessionsLoading, \* useSessionStore.isLoading
    sessionsError,   \* useSessionStore.error
    storage,         \* SecureStore: storage key -> stored item
    inflight,        \* store operations suspended at an await of SecureStore
    now,             \* Date.now()
    advances,        \* number of clock steps taken
    calls,           \* number of store operations started
    unpair,          \* AgentDetailScreen: the Unpair confirmation's onPress
    revokeAlert,     \* SessionDetailScreen: the session captured by the Revoke alert
    transfers,       \* requests issued to /api/session/transfer(-token), per sessionPubkey
    code,            \* PairAgentScreen: code
    pairingState,    \* PairAgentScreen: pairingState
    pollIntervalRef, \* PairAgentScreen: pollIntervalRef.current
    pollStartRef,    \* PairAgentScreen: pollStartRef.current
    timers,          \* setInterval timers that have not been cleared
    polls,           \* api.pairing.getStatus requests in flight
    runs,            \* number of startPolling calls
    pairedId,        \* newAgent.id of the poll that reported success (observation)
    pollOutcome,     \* what the poll() run by the last step of the screen came to (observation)
    mounted,         \* PairAgentScreen is mounted
    requests,        \* HTTP requests issued by the API client, per endpoint
    apiCall,         \* the session.request call of the agent: its limits and its outcome
    approveState,    \* ApproveSessionScreen: state
    approveRendered, \* ApproveSessionScreen: the state of the render the handlers close over
    wire             \* ApproveSessionScreen: its API calls in flight

storeVars == <<agents, agentsLoading, agentsError, sessions, sessionsLoading,
               sessionsError, storage, inflight, calls>>
clockVars == <<now, advances>>
screenVars == <<unpair, revokeAlert, transfers>>
pairVars == <<code, pairingState, pollIntervalRef, pollStartRef, timers, polls, runs,
              pairedId, pollOutcome, mounted>>
apiVars == <<requests, apiCall, approveState, approveRendered, wire>>
vars == <<storeVars, clockVars, screenVars, pairVars, apiVars>>

(***************************************************************************)
(* Bounds of the model.                                                    *)
(***************************************************************************)
MaxInFlight == 2      \* store operations suspended at the same time
MaxCalls == 4         \* store operations started in one behaviour
MaxAdvances == 2      \* clock steps in one behaviour
MaxRuns == 2          \* startPolling calls in one behaviour
MaxPolls == 2         \* getStatus requests in flight at the same time
MaxTransfers == 2     \* transfer requests counted per session key
MaxRequests == 2      \* HTTP requests issued per endpoint in one behaviour

(***************************************************************************)
(* Program constants.                                                      *)
(***************************************************************************)
MAX_POLL_DURATION_MS == 120000
AGENTS_STORAGE_KEY == "odyssey_agents"
SESSIONS_STORAGE_KEY == "odyssey_sessions"

Null == <<>>                 \* null (lastSeen: number | null)
Some(x) == <<x>>
NoError == "null"            \* error: string | null
StorageFailure == "SecureStore rejected"   \* error.message of a rejected storage call
ParseFailure == "JSON Parse error"         \* error.message of the SyntaxError of JSON.parse

AgentStatus == {"active", "inactive", "revoked"}
SessionStatus == {"pending", "active", "expired", "revoked", "exhausted"}
Terminal == {"expired", "revoked", "exhausted"}

\* The clock is observed at the instants a poll run started at 0 may see: before
\* the bound, exactly at it, and past it.
TimeSteps == {MAX_POLL_DURATION_MS}

Ids(s) == {s[i].id : i \in 1..Len(s)}

(***************************************************************************)
(* SecureStore items: getItemAsync yields null for a key never written,    *)
(* otherwise the JSON document last written.                               *)
(***************************************************************************)
NoItem == [kind |-> "null", value |-> <<>>]
CorruptItem == [kind |-> "corrupt", value |-> <<>>]   \* a string JSON.parse throws on
Json(v) == [kind |-> "json", value |-> v]

(***************************************************************************)
(* Suspended store operations.                                             *)
(***************************************************************************)
NoArg == [agentId |-> "", agentName |-> ""]
Idle == [op |-> "idle", payload |-> <<>>, owner |-> "none", arg |-> NoArg]
Task(op, payload, owner) == [op |-> op, payload |-> payload, owner |-> owner, arg |-> NoArg]
TaskFor(op, payload, owner, arg) == [op |-> op, payload |-> payload, owner |-> owner, arg |-> arg]
FreeSlots == {i \in 1..MaxInFlight : inflight[i].op = "idle"}
CanCall == FreeSlots # {} /\ calls < MaxCalls
Slot == CHOOSE i \in FreeSlots : \A j \in FreeSlots : i <= j
Suspend(t) == /\ inflight' = [inflight EXCEPT ![Slot] = t]
              /\ calls' = calls + 1
Resume(i) == inflight' = [inflight EXCEPT ![i] = Idle]

(***************************************************************************)
(* useAgentStore                                                           *)
(***************************************************************************)
NewAgent(id, name) ==
    [id |-> id, name |-> name, pairedAt |-> now, lastSeen |-> Null, status |-> "active"]

\* addAgent without its duplicate check
AddAgentIsDuplicateNever(as, agent) == FALSE
AddAgentIsDuplicate(as, agent) == \E i \in 1..Len(as) : as[i].id = agent.id
AddAgentUpdated(as, agent) == Append(as, agent)
UpdateAgentStatusUpdated(as, agentId, status) ==
    [i \in 1..Len(as) |-> IF as[i].id = agentId THEN [as[i] EXCEPT !.status = status] ELSE as[i]]
UpdateAgentLastSeenUpdated(as, agentId, lastSeen) ==
    [i \in 1..Len(as) |->
        IF as[i].id = agentId THEN [as[i] EXCEPT !.lastSeen = Some(lastSeen)] ELSE as[i]]
RemoveAgentUpdated(as, agentId) ==
    LET Keep(a) == a.id # agentId IN SelectSeq(as, Keep)

AgentWriteOps == {"addAgent", "updateAgentStatus", "updateAgentLastSeen", "removeAgent"}

\* The part of an agent store operation after `await SecureStore.setItemAsync`:
\* set({agents: updatedAgents}) when it resolved, set({error}) when it rejected.
AgentsWriteEffect(t, ok) ==
    IF ok
    THEN /\ storage' = [storage EXCEPT ![AGENTS_STORAGE_KEY] = Json(t.payload)]
         /\ agents' = t.payload
         /\ agentsError' = IF t.op = "addAgent" THEN NoError ELSE agentsError
    ELSE /\ agentsError' = StorageFailure
         /\ UNCHANGED <<storage, agents>>

LoadAgentsCall ==
    /\ CanCall
    /\ agentsLoading' = TRUE
    /\ agentsError' = NoError
    /\ Suspend(Task("loadAgents", <<>>, "api"))
    /\ UNCHANGED <<agents, sessions, sessionsLoading, sessionsError, storage>>
    /\ UNCHANGED <<clockVars, screenVars, pairVars, apiVars>>

LoadAgentsDone(i, ok) ==
    /\ inflight[i].op = "loadAgents"
    /\ LET stored == storage[AGENTS_STORAGE_KEY] IN
       IF ok /\ stored.kind # "corrupt"
       THEN /\ agents' = IF stored.kind = "json" THEN stored.value ELSE <<>>
            /\ agentsLoading' = FALSE
            /\ UNCHANGED agentsError
       ELSE /\ agentsLoading' = FALSE
            /\ agentsError' = IF ok THEN ParseFailure ELSE StorageFailure
            /\ UNCHANGED agents
    /\ Resume(i)
    /\ UNCHANGED <<sessions, sessionsLoading, sessionsError, storage, calls>>
    /\ UNCHANGED <<clockVars, screenVars, pairVars, apiVars>>

\* addAgent up to its await: the duplicate check on the get() snapshot.
AddAgentStart(agent, owner, arg) ==
    IF AddAgentIsDuplicate(agents, agent)
    THEN /\ agentsError' = "Agent already paired"
         /\ UNCHANGED <<inflight, calls>>
    ELSE /\ Suspend(TaskFor("addAgent", AddAgentUpdated(agents, agent), owner, arg))
         /\ UNCHANGED agentsError

AgentIds == {"a1", "a2"}
AgentNames == {"Bot"}

AddAgentCall(agent) ==
    /\ CanCall
    /\ AddAgentStart(agent, "api", NoArg)
    /\ UNCHANGED <<agents, agentsLoading, sessions, sessionsLoading, sessionsError, storage>>
    /\ UNCHANGED <<clockVars, screenVars, pairVars, apiVars>>

UpdateAgentStatusCall(agentId, status) ==
    /\ CanCall
    /\ Suspend(Task("updateAgentStatus", UpdateAgentStatusUpdated(agents, agentId, status), "api"))
    /\ UNCHANGED <<agents, agentsLoading, agentsError, sessions, sessionsLoading,
                   sessionsError, storage>>
    /\ UNCHANGED <<clockVars, screenVars, pairVars, apiVars>>

UpdateAgentLastSeenCall(agentId) ==
    /\ CanCall
    /\ Suspend(Task("updateAgentLastSeen", UpdateAgentLastSeenUpdated(agents, agentId, now), "api"))
    /\ UNCHANGED <<agents, agentsLoading, agentsError, sessions, sessionsLoading,
                   sessionsError, storage>>
    /\ UNCHANGED <<clockVars, screenVars, pairVars, apiVars>>

RemoveAgentCall(agentId) ==
    /\ CanCall
    /\ Suspend(Task("removeAgent", RemoveAgentUpdated(agents, agentId), "api"))
    /\ UNCHANGED <<agents, agentsLoading, agentsError, sessions, sessionsLoading,
                   sessionsError, storage>>
    /\ UNCHANGED <<clockVars, screenVars, pairVars, apiVars>>

AgentsWriteDone(i, ok) ==
    /\ inflight[i].op \in AgentWriteOps
    /\ inflight[i].owner = "api"
    /\ AgentsWriteEffect(inflight[i], ok)
    /\ Resume(i)
    /\ UNCHANGED <<agentsLoading, sessions, sessionsLoading, sessionsError, calls>>
    /\ UNCHANGED <<clockVars, screenVars, pairVars, apiVars>>

(***************************************************************************)
(* useSessionStore                                                         *)
(***************************************************************************)
ExpireOne(s, t) ==
    IF s.status = "active" /\ s.expiresAt < t THEN [s EXCEPT !.status = "expired"] ELSE s
LoadSessionsUpdated(ss, t) == [i \in 1..Len(ss) |-> ExpireOne(ss[i], t)]

AddSessionIsDuplicate(ss, session) == \E i \in 1..Len(ss) : ss[i].id = session.id
AddSessionUpdated(ss, session) == Append(ss, session)
\* { ...s, ...updates }: the fields named in updates replace those of s
Merge(s, updates) ==
    [f \in DOMAIN s |-> IF f \in DOMAIN updates THEN updates[f] ELSE s[f]]
UpdateSessionUpdated(ss, sessionId, updates) ==
    [i \in 1..Len(ss) |-> IF ss[i].id = sessionId THEN Merge(ss[i], updates) ELSE ss[i]]
RemoveSessionUpdated(ss, sessionId) ==
    LET Keep(s) == s.id # sessionId IN SelectSeq(ss, Keep)
RemoveSessionsForAgentUpdated(ss, agentId) ==
    LET Keep(s) == s.agentId # agentId IN SelectSeq(ss, Keep)

SessionWriteOps == {"addSession", "updateSession", "removeSession", "removeSessionsForAgent"}

\* a store that keeps its update when the storage write fails
SessionsWriteEffectOptimistic(t, ok) ==
    IF ok
    THEN /\ storage' = [storage EXCEPT ![SESSIONS_STORAGE_KEY] = Json(t.payload)]
         /\ sessions' = t.payload
         /\ sessionsError' = IF t.op = "addSession" THEN NoError ELSE sessionsError
    ELSE /\ sessionsError' = StorageFailure
         /\ sessions' = t.payload
         /\ UNCHANGED storage

SessionsWriteEffect(t, ok) ==
    IF ok
    THEN /\ storage' = [storage EXCEPT ![SESSIONS_STORAGE_KEY] = Json(t.payload)]
         /\ sessions' = t.payload
         /\ sessionsError' = IF t.op = "addSession" THEN NoError ELSE sessionsError
    ELSE /\ sessionsError' = StorageFailure
         /\ UNCHANGED <<storage, sessions>>

LoadSessionsCall ==
    /\ CanCall
    /\ sessionsLoading' = TRUE
    /\ sessionsError' = NoError
    /\ Suspend(Task("loadSessions", <<>>, "api"))
    /\ UNCHANGED <<agents, agentsLoading, agentsError, sessions, storage>>
    /\ UNCHANGED <<clockVars, screenVars, pairVars, apiVars>>

\* loadSessions from the resolution of getItemAsync to its next await (or its end)
LoadSessionsRead(i, ok) ==
    /\ inflight[i].op = "loadSessions"
    /\ LET stored == storage[SESSIONS_STORAGE_KEY]
           updatedSessions == LoadSessionsUpdated(stored.value, now)
       IN  IF ok /\ stored.kind = "json"
           THEN /\ sessions' = updatedSessions
                /\ sessionsLoading' = FALSE
                /\ UNCHANGED sessionsError
                /\ IF stored.value # updatedSessions
                   THEN inflight' = [inflight EXCEPT
                                        ![i] = Task("loadSessionsPersist", updatedSessions, "api")]
                   ELSE Resume(i)
           ELSE IF ok /\ stored.kind = "null"
           THEN /\ sessions' = <<>>
                /\ sessionsLoading' = FALSE
                /\ UNCHANGED sessionsError
                /\ Resume(i)
           ELSE /\ sessionsLoading' = FALSE
                /\ sessionsError' = IF ok THEN ParseFailure ELSE StorageFailure
                /\ UNCHANGED sessions
                /\ Resume(i)
    /\ UNCHANGED <<agents, agentsLoading, agentsError, storage, calls>>
    /\ UNCHANGED <<clockVars, screenVars, pairVars, apiVars>>

\* loadSessions after `await SecureStore.setItemAsync` of the expired sessions
LoadSessionsPersisted(i, ok) ==
    /\ inflight[i].op = "loadSessionsPersist"
    /\ IF ok
       THEN /\ storage' = [storage EXCEPT ![SESSIONS_STORAGE_KEY] = Json(inflight[i].payload)]
            /\ UNCHANGED <<sessionsLoading, sessionsError>>
       ELSE /\ sessionsLoading' = FALSE
            /\ sessionsError' = StorageFailure
            /\ UNCHANGED storage
    /\ Resume(i)
    /\ UNCHANGED <<agents, agentsLoading, agentsError, sessions, calls>>
    /\ UNCHANGED <<clockVars, screenVars, pairVars, apiVars>>

AddSessionCall(session) ==
    /\ CanCall
    /\ IF AddSessionIsDuplicate(sessions, session)
       THEN /\ sessionsError' = "Session already exists"
            /\ UNCHANGED <<inflight, calls>>
       ELSE /\ Suspend(Task("addSession", AddSessionUpdated(sessions, session), "api"))
            /\ UNCHANGED sessionsError
    /\ UNCHANGED <<agents, agentsLoading, agentsError, sessions, sessionsLoading, storage>>
    /\ UNCHANGED <<clockVars, screenVars, pairVars, apiVars>>

\* updateSession up to its await
UpdateSessionStart(sessionId, updates) ==
    /\ CanCall
    /\ Suspend(Task("updateSession", UpdateSessionUpdated(sessions, sessionId, updates), "api"))
    /\ UNCHANGED <<agents, agentsLoading, agentsError, sessions, sessionsLoading,
                   sessionsError, storage>>

UpdateSessionCall(sessionId, updates) ==
    /\ UpdateSessionStart(sessionId, updates)
    /\ UNCHANGED <<clockVars, screenVars, pairVars, apiVars>>

RemoveSessionCall(sessionId) ==
    /\ CanCall
    /\ Suspend(Task("removeSession", RemoveSessionUpdated(sessions, sessionId), "api"))
    /\ UNCHANGED <<agents, agentsLoading, agentsError, sessions, sessionsLoading,
                   sessionsError, storage>>
    /\ UNCHANGED <<clockVars, screenVars, pairVars, apiVars>>

RemoveSessionsForAgentCall(agentId) ==
    /\ CanCall
    /\ Suspend(Task("removeSessionsForAgent", RemoveSessionsForAgentUpdated(sessions, agentId), "api"))
    /\ UNCHANGED <<agents, agentsLoading, agentsError, sessions, sessionsLoading,
                   sessionsError, storage>>
    /\ UNCHANGED <<clockVars, screenVars, pairVars, apiVars>>

SessionsWriteDone(i, ok) ==
    /\ inflight[i].op \in SessionWriteOps
    /\ inflight[i].owner = "api"
    /\ SessionsWriteEffect(inflight[i], ok)
    /\ Resume(i)
    /\ UNCHANGED <<agents, agentsLoading, agentsError, sessionsLoading, calls>>
    /\ UNCHANGED <<clockVars, screenVars, pairVars, apiVars>>

(***************************************************************************)
(* Date.now() between two callbacks                                        *)
(***************************************************************************)
Advance(d) ==
    /\ advances < MaxAdvances
    /\ now' = now + d
    /\ advances' = advances + 1
    /\ UNCHANGED <<storeVars, screenVars, pairVars, apiVars>>

\* Time passes while the pairing screen polls; the clock is followed until the
\* run that is polling is past MAX_POLL_DURATION_MS.
Elapse(d) ==
    /\ pairingState.status = "polling"
    /\ now - pollStartRef <= MAX_POLL_DURATION_MS
    /\ now' = now + d
    /\ UNCHANGED advances
    /\ UNCHANGED <<storeVars, screenVars, pairVars, apiVars>>

(***************************************************************************)
(* SecureStore: what is stored under a key gets corrupted                  *)
(***************************************************************************)
CorruptStorage(key) ==
    /\ storage[key].kind = "json"
    /\ storage' = [storage EXCEPT ![key] = CorruptItem]
    /\ UNCHANGED <<agents, agentsLoading, agentsError, sessions, sessionsLoading,
                   sessionsError, inflight, calls>>
    /\ UNCHANGED <<clockVars, screenVars, pairVars, apiVars>>

(***************************************************************************)
(* AgentDetailScreen: handleUnpair, the onPress of the Unpair button       *)
(***************************************************************************)
NoUnpair == [stage |-> "idle", agentId |-> ""]

\* if (!agent) return; await updateAgentStatus(agentId, 'revoked')
UnpairPress(agentId) ==
    /\ unpair.stage = "idle"
    /\ agentId \in Ids(agents)
    /\ CanCall
    /\ Suspend(Task("updateAgentStatus",
                    UpdateAgentStatusUpdated(agents, agentId, "revoked"), "unpair"))
    /\ unpair' = [stage |-> "status", agentId |-> agentId]
    /\ UNCHANGED <<agents, agentsLoading, agentsError, sessions, sessionsLoading,
                   sessionsError, storage>>
    /\ UNCHANGED <<clockVars, revokeAlert, transfers, pairVars, apiVars>>

\* updateAgentStatus resumes; await removeSessionsForAgent(agentId)
UnpairStatusDone(i, ok) ==
    /\ inflight[i].owner = "unpair"
    /\ unpair.stage = "status"
    /\ AgentsWriteEffect(inflight[i], ok)
    /\ inflight' = [inflight EXCEPT ![i] =
           Task("removeSessionsForAgent",
                RemoveSessionsForAgentUpdated(sessions, unpair.agentId), "unpair")]
    /\ unpair' = [unpair EXCEPT !.stage = "sessions"]
    /\ UNCHANGED <<agentsLoading, sessions, sessionsLoading, sessionsError, calls>>
    /\ UNCHANGED <<clockVars, revokeAlert, transfers, pairVars, apiVars>>

\* removeSessionsForAgent resumes; await removeAgent(agentId)
UnpairSessionsDone(i, ok) ==
    /\ inflight[i].owner = "unpair"
    /\ unpair.stage = "sessions"
    /\ SessionsWriteEffect(inflight[i], ok)
    /\ inflight' = [inflight EXCEPT ![i] =
           Task("removeAgent", RemoveAgentUpdated(agents, unpair.agentId), "unpair")]
    /\ unpair' = [unpair EXCEPT !.stage = "agent"]
    /\ UNCHANGED <<agents, agentsLoading, agentsError, sessionsLoading, calls>>
    /\ UNCHANGED <<clockVars, revokeAlert, transfers, pairVars, apiVars>>

\* removeAgent resumes; navigation.goBack()
UnpairAgentDone(i, ok) ==
    /\ inflight[i].owner = "unpair"
    /\ unpair.stage = "agent"
    /\ AgentsWriteEffect(inflight[i], ok)
    /\ Resume(i)
    /\ unpair' = [unpair EXCEPT !.stage = "done"]
    /\ UNCHANGED <<agentsLoading, sessions, sessionsLoading, sessionsError, calls>>
    /\ UNCHANGED <<clockVars, revokeAlert, transfers, pairVars, apiVars>>

(***************************************************************************)
(* SessionDetailScreen: the expiry effect and handleRevoke                 *)
(***************************************************************************)
\* useEffect: session.status === 'active' && session.expiresAt < Date.now()
ExpiryEffect(sessionId) ==
    /\ \E i \in 1..Len(sessions) :
          /\ sessions[i].id = sessionId
          /\ sessions[i].status = "active"
          /\ sessions[i].expiresAt < now
    /\ UpdateSessionStart(sessionId, [status |-> "expired"])
    /\ UNCHANGED <<clockVars, screenVars, pairVars, apiVars>>

\* handleRevoke: the Revoke button is rendered while the session is active;
\* Alert.alert keeps the session of this render in the closure of onPress.
RevokePress(sessionId) ==
    /\ revokeAlert = Null
    /\ \E i \in 1..Len(sessions) :
          sessions[i].id = sessionId /\ sessions[i].status = "active"
    /\ revokeAlert' = Some(sessionId)
    /\ UNCHANGED <<storeVars, clockVars, unpair, transfers, pairVars, apiVars>>

\* the alert's Revoke button: await updateSession(session.id, { status: 'revoked' })
RevokeConfirm ==
    /\ revokeAlert # Null
    /\ UpdateSessionStart(revokeAlert[1], [status |-> "revoked"])
    /\ revokeAlert' = Null
    /\ UNCHANGED <<clockVars, unpair, transfers, pairVars, apiVars>>

\* the alert's Cancel button
RevokeDismiss ==
    /\ revokeAlert # Null
    /\ revokeAlert' = Null
    /\ UNCHANGED <<storeVars, clockVars, unpair, transfers, pairVars, apiVars>>

(***************************************************************************)
(* api.session.transfer / transferToken: request() issues the POST         *)
(***************************************************************************)
SessionKeys == {"k1"}

Transfer(sessionPubkey) ==
    /\ transfers[sessionPubkey] < MaxTransfers
    /\ transfers' = [transfers EXCEPT ![sessionPubkey] = @ + 1]
    /\ UNCHANGED <<storeVars, clockVars, unpair, revokeAlert, pairVars, apiVars>>

(***************************************************************************)
(* API client: request() and session.request                               *)
(***************************************************************************)
ErrorClasses == {"OdysseyApiError", "NetworkError", "ValidationError"}

\* What fetch and the service can answer to one request: fetch rejects with a
\* TypeError (no connectivity), or it resolves with a response whose body is
\* JSON or not, whose status is 2xx or not (ok), and whose JSON matches the
\* schema of the endpoint or not (valid).
NoHttp == [fetch |-> "none", json |-> FALSE, ok |-> FALSE, valid |-> FALSE]
HttpOutcomes ==
    {[fetch |-> "TypeError", json |-> FALSE, ok |-> FALSE, valid |-> FALSE]}
    \cup [fetch : {"resolved"}, json : {FALSE}, ok : BOOLEAN, valid : {FALSE}]
    \cup [fetch : {"resolved"}, json : {TRUE}, ok : BOOLEAN, valid : BOOLEAN]

\* request(): "ok" where it returns result.data, else the class of the error it
\* throws.  `await response.json()` rejects with a SyntaxError on a body that is
\* not JSON; the catch wraps whatever is not one of the three classes in a
\* NetworkError.
RequestOutcome(h) ==
    IF h.fetch = "TypeError" THEN "NetworkError"
    ELSE IF ~h.json THEN "NetworkError"
    ELSE IF ~h.ok THEN "OdysseyApiError"
    ELSE IF ~h.valid THEN "ValidationError"
    ELSE "ok"

Endpoints == {"/api/request-session", "/api/session-details",
              "/api/session/approve", "/api/session/reject"}

\* fetch(url, ...) is called
Fetch(endpoint) ==
    /\ requests[endpoint] < MaxRequests
    /\ requests' = [requests EXCEPT ![endpoint] = @ + 1]

\* Numbers of a request body are held in units of 1/Fraction, so that 1 stands
\* for 0.5 and 4 for 2.
Fraction == 2
IsInt(x) == x % Fraction = 0

\* the schema without its checks of decimals
SpendingLimitValidAmountOnly(l) == l.amount >= 0
\* z.array(SpendingLimitSchema).safeParse(params.limits).success
SpendingLimitValid(l) == l.amount >= 0 /\ IsInt(l.decimals) /\ l.decimals >= 0
LimitsValid(limits) == \A i \in 1..Len(limits) : SpendingLimitValid(limits[i])

NoCall == [stage |-> "none", limits |-> <<>>, http |-> NoHttp, outcome |-> "none"]

\* session.request(params), to its throw or to the await of fetch
SessionRequestCall(limits) ==
    /\ apiCall.stage # "fetching"
    /\ IF ~LimitsValid(limits)
       THEN /\ apiCall' = [stage |-> "done", limits |-> limits, http |-> NoHttp,
                           outcome |-> "ValidationError"]
            /\ UNCHANGED requests
       ELSE /\ Fetch("/api/request-session")
            /\ apiCall' = [stage |-> "fetching", limits |-> limits, http |-> NoHttp,
                           outcome |-> "none"]
    /\ UNCHANGED <<approveState, approveRendered, wire>>
    /\ UNCHANGED <<storeVars, clockVars, screenVars, pairVars>>

\* the fetch of session.request is answered: request() returns or throws
SessionRequestDone(h) ==
    /\ apiCall.stage = "fetching"
    /\ apiCall' = [apiCall EXCEPT !.stage = "done", !.http = h,
                                  !.outcome = RequestOutcome(h)]
    /\ UNCHANGED <<requests, approveState, approveRendered, wire>>
    /\ UNCHANGED <<storeVars, clockVars, screenVars, pairVars>>

(***************************************************************************)
(* ApproveSessionScreen, while it is mounted                               *)
(***************************************************************************)
ApproveCalls == {"getDetails", "approve", "reject"}

ApproveIn(status) == [status |-> status, message |-> ""]
ApproveLoading == ApproveIn("loading")
ApproveError(message) == [status |-> "error", message |-> message]

DetailsStatuses == {"pending", "approved", "rejected", "expired"}

\* the message the catch blocks of the screen make of an error
ErrorMessage(class, default) ==
    IF class = "OdysseyApiError" THEN "error.message"
    ELSE IF class = "NetworkError" THEN "Network error. Please check your connection."
    ELSE default

Await(c) == wire' = [wire EXCEPT ![c] = @ + 1]
Settle(c) == /\ wire[c] > 0
             /\ wire' = [wire EXCEPT ![c] = @ - 1]

\* the effect on mount: loadDetails() to its await
LoadDetailsCall ==
    /\ requests["/api/session-details"] = 0
    /\ Fetch("/api/session-details")
    /\ Await("getDetails")
    /\ UNCHANGED <<apiCall, approveState, approveRendered>>
    /\ UNCHANGED <<storeVars, clockVars, screenVars, pairVars>>

\* api.session.getDetails resolves
LoadDetailsResolved(status) ==
    /\ Settle("getDetails")
    /\ approveState' =
          IF status = "approved" THEN ApproveIn("approved")
          ELSE IF status = "rejected" THEN ApproveIn("rejected")
          ELSE IF status = "expired" THEN ApproveError("This session request has expired")
          ELSE ApproveIn("loaded")
    /\ UNCHANGED <<requests, apiCall, approveRendered>>
    /\ UNCHANGED <<storeVars, clockVars, screenVars, pairVars>>

\* api.session.getDetails throws
LoadDetailsThrew(h) ==
    /\ Settle("getDetails")
    /\ RequestOutcome(h) \in ErrorClasses
    /\ approveState' = ApproveError(ErrorMessage(RequestOutcome(h),
                                                 "Failed to load session details"))
    /\ UNCHANGED <<requests, apiCall, approveRendered>>
    /\ UNCHANGED <<storeVars, clockVars, screenVars, pairVars>>

\* React renders the screen again: the buttons and the handlers of the new
\* render see the state set since the last one
ApproveRender ==
    /\ approveRendered # approveState
    /\ approveRendered' = approveState
    /\ UNCHANGED <<requests, apiCall, approveState, wire>>
    /\ UNCHANGED <<storeVars, clockVars, screenVars, pairVars>>

\* handleApprove (the Approve button is rendered in the loaded state), to its await
HandleApprove ==
    /\ approveRendered.status = "loaded"
    /\ approveState' = ApproveIn("approving")
    /\ Fetch("/api/session/approve")
    /\ Await("approve")
    /\ UNCHANGED <<apiCall, approveRendered>>
    /\ UNCHANGED <<storeVars, clockVars, screenVars, pairVars>>

\* api.session.approve resolves
ApproveResolved ==
    /\ Settle("approve")
    /\ approveState' = ApproveIn("approved")
    /\ UNCHANGED <<requests, apiCall, approveRendered>>
    /\ UNCHANGED <<storeVars, clockVars, screenVars, pairVars>>

\* api.session.approve throws
ApproveThrew(h) ==
    /\ Settle("approve")
    /\ RequestOutcome(h) \in ErrorClasses
    /\ approveState' = ApproveError(ErrorMessage(RequestOutcome(h), "Failed to approve session"))
    /\ UNCHANGED <<requests, apiCall, approveRendered>>
    /\ UNCHANGED <<storeVars, clockVars, screenVars, pairVars>>

\* handleReject (the Reject button is rendered in the loaded state), to its await
HandleReject ==
    /\ approveRendered.status = "loaded"
    /\ approveState' = ApproveIn("rejecting")
    /\ Fetch("/api/session/reject")
    /\ Await("reject")
    /\ UNCHANGED <<apiCall, approveRendered>>
    /\ UNCHANGED <<storeVars, clockVars, screenVars, pairVars>>

\* api.session.reject resolves
RejectResolved ==
    /\ Settle("reject")
    /\ approveState' = ApproveIn("rejected")
    /\ UNCHANGED <<requests, apiCall, approveRendered>>
    /\ UNCHANGED <<storeVars, clockVars, screenVars, pairVars>>

\* api.session.reject throws
RejectThrew(h) ==
    /\ Settle("reject")
    /\ RequestOutcome(h) \in ErrorClasses
    /\ approveState' = ApproveError(ErrorMessage(RequestOutcome(h), "Failed to reject session"))
    /\ UNCHANGED <<requests, apiCall, approveRendered>>
    /\ UNCHANGED <<storeVars, clockVars, screenVars, pairVars>>

(***************************************************************************)
(* PairAgentScreen                                                         *)
(***************************************************************************)
RequestIds == {"r1", "r2"}
Codes == {""} \cup RequestIds

PairIdle == [status |-> "idle", requestId |-> "", agentName |-> "", message |-> ""]
PairPolling(requestId) ==
    [status |-> "polling", requestId |-> requestId, agentName |-> "", message |-> ""]
PairSuccess(agentName) ==
    [status |-> "success", requestId |-> "", agentName |-> agentName, message |-> ""]
PairError(message) ==
    [status |-> "error", requestId |-> "", agentName |-> "", message |-> message]

TimedOutMessage == "Pairing request timed out"
RejectedMessage == "Pairing request was rejected"
ExpiredMessage == "Pairing request expired"

\* PairingStatusResponse: agentId and agentName are optional.  The service names
\* the agent in what it answers for request r1 and leaves it out for r2.
Responses(requestId) ==
    [status : {"pending", "rejected", "expired"}, agentId : {Null}, agentName : {Null}]
    \cup (IF requestId = "r1"
          THEN [status : {"approved"}, agentId : {Some("a1")}, agentName : {Some("Bot")}]
          ELSE [status : {"approved"}, agentId : {Null}, agentName : {Null}])

OrElse(opt, default) == IF opt = Null THEN default ELSE opt[1]

\* if (pollIntervalRef.current) clearInterval(pollIntervalRef.current)
ClearInterval(ref) == {t \in timers : t.id # ref}

\* a poll() without its wall-clock bound
PollTimedOutNever == FALSE
\* poll(): the check that precedes the request
PollTimedOut == now - pollStartRef > MAX_POLL_DURATION_MS

SetCode(c) ==
    /\ mounted
    /\ pairingState.status = "idle"
    /\ c # code
    /\ code' = c
    /\ pollOutcome' = "none"
    /\ UNCHANGED <<pairingState, pollIntervalRef, pollStartRef, timers, polls, runs, pairedId, mounted>>
    /\ UNCHANGED <<storeVars, clockVars, screenVars, apiVars>>

\* handleSubmit (the Submit button is disabled while code.trim() is empty),
\* startPolling, the initial poll() up to its await, and setInterval
HandleSubmit ==
    /\ mounted
    /\ pairingState.status = "idle"
    /\ code # ""
    /\ runs < MaxRuns
    /\ polls[code] < MaxPolls
    /\ pairingState' = PairPolling(code)
    /\ pollStartRef' = now
    /\ polls' = [polls EXCEPT ![code] = @ + 1]
    /\ pollIntervalRef' = runs + 1
    /\ timers' = timers \cup {[id |-> runs + 1, requestId |-> code]}
    /\ runs' = runs + 1
    /\ pollOutcome' = "none"
    /\ UNCHANGED <<code, pairedId, mounted>>
    /\ UNCHANGED <<storeVars, clockVars, screenVars, apiVars>>

\* an interval timer fires (setInterval(poll, POLL_INTERVAL_MS)): poll() up to
\* its await
Tick(t) ==
    /\ t \in timers
    /\ IF PollTimedOut
       THEN /\ timers' = ClearInterval(pollIntervalRef)
            /\ pairingState' = PairError(TimedOutMessage)
            /\ pollOutcome' = "timeout"
            /\ UNCHANGED polls
       ELSE /\ polls[t.requestId] < MaxPolls
            /\ polls' = [polls EXCEPT ![t.requestId] = @ + 1]
            /\ pollOutcome' = "none"
            /\ UNCHANGED <<timers, pairingState>>
    /\ UNCHANGED <<code, pollIntervalRef, pollStartRef, runs, pairedId, mounted>>
    /\ UNCHANGED <<storeVars, clockVars, screenVars, apiVars>>

\* api.pairing.getStatus resolves: the switch of poll(), up to `await addAgent`
\* (or to the end of poll() where addAgent returns without awaiting)
PollResolved(requestId, response) ==
    /\ polls[requestId] > 0
    /\ polls' = [polls EXCEPT ![requestId] = @ - 1]
    /\ pollOutcome' = response.status
    /\ IF response.status = "approved"
       THEN LET newAgent == NewAgent(OrElse(response.agentId, requestId),
                                     OrElse(response.agentName, "Unknown Agent"))
                arg == [agentId |-> newAgent.id, agentName |-> newAgent.name]
            IN  /\ timers' = ClearInterval(pollIntervalRef)
                /\ CanCall
                /\ AddAgentStart(newAgent, "poll", arg)
                /\ IF AddAgentIsDuplicate(agents, newAgent)
                   THEN /\ pairingState' = PairSuccess(newAgent.name)
                        /\ pairedId' = newAgent.id
                   ELSE UNCHANGED <<pairingState, pairedId>>
       ELSE IF response.status = "rejected"
       THEN /\ timers' = ClearInterval(pollIntervalRef)
            /\ pairingState' = PairError(RejectedMessage)
            /\ UNCHANGED <<agentsError, inflight, calls, pairedId>>
       ELSE IF response.status = "expired"
       THEN /\ timers' = ClearInterval(pollIntervalRef)
            /\ pairingState' = PairError(ExpiredMessage)
            /\ UNCHANGED <<agentsError, inflight, calls, pairedId>>
       ELSE UNCHANGED <<timers, pairingState, agentsError, inflight, calls, pairedId>>
    /\ UNCHANGED <<code, pollIntervalRef, pollStartRef, runs, mounted>>
    /\ UNCHANGED <<agents, agentsLoading, sessions, sessionsLoading, sessionsError, storage>>
    /\ UNCHANGED <<clockVars, screenVars, apiVars>>

\* a poll() whose catch gives up
PollThrewGivesUp(requestId, h) ==
    /\ polls[requestId] > 0
    /\ RequestOutcome(h) \in ErrorClasses
    /\ polls' = [polls EXCEPT ![requestId] = @ - 1]
    /\ pollOutcome' = RequestOutcome(h)
    /\ timers' = ClearInterval(pollIntervalRef)
    /\ pairingState' = PairError("Network error. Please check your connection.")
    /\ UNCHANGED <<code, pollIntervalRef, pollStartRef, runs, pairedId, mounted>>
    /\ UNCHANGED <<storeVars, clockVars, screenVars, apiVars>>

\* api.pairing.getStatus throws the error request() makes of the answer h:
\* catch { /* silently retry */ }
PollThrew(requestId, h) ==
    /\ polls[requestId] > 0
    /\ RequestOutcome(h) \in ErrorClasses
    /\ polls' = [polls EXCEPT ![requestId] = @ - 1]
    /\ pollOutcome' = RequestOutcome(h)
    /\ UNCHANGED <<code, pairingState, pollIntervalRef, pollStartRef, timers, runs, pairedId, mounted>>
    /\ UNCHANGED <<storeVars, clockVars, screenVars, apiVars>>

\* addAgent resumes inside poll(); setPairingState({ status: 'success', ... })
PollAddAgentDone(i, ok) ==
    /\ inflight[i].owner = "poll"
    /\ AgentsWriteEffect(inflight[i], ok)
    /\ Resume(i)
    /\ pairingState' = PairSuccess(inflight[i].arg.agentName)
    /\ pairedId' = inflight[i].arg.agentId
    /\ pollOutcome' = "approved"
    /\ UNCHANGED <<code, pollIntervalRef, pollStartRef, timers, polls, runs, mounted>>
    /\ UNCHANGED <<agentsLoading, sessions, sessionsLoading, sessionsError, calls>>
    /\ UNCHANGED <<clockVars, screenVars, apiVars>>

\* handleRetry: the Cancel button (polling) and the Try Again button (error)
HandleRetry ==
    /\ mounted
    /\ pairingState.status \in {"polling", "error"}
    /\ code' = ""
    /\ pairingState' = PairIdle
    /\ pollOutcome' = "none"
    /\ UNCHANGED <<pollIntervalRef, pollStartRef, timers, polls, runs, pairedId, mounted>>
    /\ UNCHANGED <<storeVars, clockVars, screenVars, apiVars>>

(***************************************************************************)

\* the cleanup of the effect, run when the screen is unmounted (navigation.goBack
\* of handleDone, or the back button in any state); pairingState then stands for
\* the last value passed to setPairingState
Unmount ==
    /\ mounted
    /\ mounted' = FALSE
    /\ timers' = ClearInterval(pollIntervalRef)
    /\ pollOutcome' = "none"
    /\ UNCHANGED <<code, pairingState, pollIntervalRef, pollStartRef, polls, runs, pairedId>>
    /\ UNCHANGED <<storeVars, clockVars, screenVars, apiVars>>

(***************************************************************************)
(* Inputs of the store operations                                          *)
(***************************************************************************)
Limit(mint, amount, decimals) == [mint |-> mint, amount |-> amount, decimals |-> decimals]

Session1 ==
    [id |-> "s1", agentId |-> "a1", walletPubkey |-> "w1", sessionPubkey |-> "k1",
     limits |-> <<Limit("native", 2, 9)>>,
     durationSeconds |-> 120, createdAt |-> 0, expiresAt |-> 120000,
     status |-> "active", spent |-> [m \in {"native"} |-> 0]]
Session2 ==
    [id |-> "s2", agentId |-> "a1", walletPubkey |-> "w1", sessionPubkey |-> "k1",
     limits |-> <<Limit("native", 2, 9)>>,
     durationSeconds |-> 360, createdAt |-> 0, expiresAt |-> 360000,
     status |-> "active", spent |-> [m \in {"native"} |-> 0]]
\* a session with two limited mints
Session3 ==
    [id |-> "s3", agentId |-> "a1", walletPubkey |-> "w1", sessionPubkey |-> "k3",
     limits |-> <<Limit("native", 2, 9), Limit("usdc", 1, 6)>>,
     durationSeconds |-> 360, createdAt |-> 0, expiresAt |-> 360000,
     status |-> "active", spent |-> [m \in {"native", "usdc"} |-> 0]]
SessionInputs == {Session1, Session2}
SessionIds == {s.id : s \in SessionInputs}

\* Partial<Session> values passed to updateSession
SessionUpdates == [spent : [{"native"} -> {2, 3}]]
\* the spent amounts of Session3 up to its limits
SpendUpdates == [spent : {f \in [{"native", "usdc"} -> 0..2] : f["usdc"] <= 1}]

\* limits passed to session.request (numbers in units of 1/Fraction)
RequestMints == {"native", "usdc"}
RequestAmounts == {0 - 2, 1, 4}
RequestDecimals == {0 - 2, 1, 18}
RequestLimit == [mint : RequestMints, amount : RequestAmounts, decimals : RequestDecimals]
RequestLimits == {<<l>> : l \in RequestLimit} \cup {<<l, m>> : l \in RequestLimit, m \in RequestLimit}
\* those of them that session.request submits
ValidRequestLimits == {limits \in RequestLimits : LimitsValid(limits)}

(***************************************************************************)
(* Initial state: both stores as created and no screen active, over the    *)
(* given content of SecureStore                                            *)
(***************************************************************************)
InitOver(stored) ==
    /\ agents = <<>>
    /\ agentsLoading = FALSE
    /\ agentsError = NoError
    /\ sessions = <<>>
    /\ sessionsLoading = FALSE
    /\ sessionsError = NoError
    /\ storage = stored
    /\ inflight = [i \in 1..MaxInFlight |-> Idle]
    /\ now = 0
    /\ advances = 0
    /\ calls = 0
    /\ unpair = NoUnpair
    /\ revokeAlert = Null
    /\ transfers = [k \in SessionKeys |-> 0]
    /\ code = ""
    /\ pairingState = PairIdle
    /\ pollIntervalRef = 0
    /\ pollStartRef = 0
    /\ timers = {}
    /\ polls = [r \in RequestIds |-> 0]
    /\ runs = 0
    /\ pairedId = ""
    /\ pollOutcome = "none"
    /\ mounted = TRUE
    /\ requests = [e \in Endpoints |-> 0]
    /\ apiCall = NoCall
    /\ approveState = ApproveLoading
    /\ approveRendered = ApproveLoading
    /\ wire = [c \in ApproveCalls |-> 0]

\* first start of the app: nothing stored
Init == InitOver([k \in {AGENTS_STORAGE_KEY, SESSIONS_STORAGE_KEY} |-> NoItem])

\* a later start of the app: one agent and its two sessions were stored
InitStored ==
    InitOver([k \in {AGENTS_STORAGE_KEY, SESSIONS_STORAGE_KEY} |->
                 IF k = AGENTS_STORAGE_KEY
                 THEN Json(<<[id |-> "a1", name |-> "Bot", pairedAt |-> 0,
                              lastSeen |-> Null, status |-> "active"]>>)
                 ELSE Json(<<Session1, Session2>>)])

Slots == 1..MaxInFlight

\* useAgentStore under concurrent callers
NextAgents ==
    \/ LoadAgentsCall
    \/ \E i \in Slots, ok \in BOOLEAN : LoadAgentsDone(i, ok)
    \/ \E id \in AgentIds, name \in AgentNames : AddAgentCall(NewAgent(id, name))
    \/ \E id \in AgentIds, st \in AgentStatus : UpdateAgentStatusCall(id, st)
    \/ \E id \in AgentIds : UpdateAgentLastSeenCall(id)
    \/ \E id \in AgentIds : RemoveAgentCall(id)
    \/ \E i \in Slots, ok \in BOOLEAN : AgentsWriteDone(i, ok)

SpecAgents == Init /\ [][NextAgents]_vars

\* useSessionStore, SessionDetailScreen and the transfer API
NextSessions ==
    \/ LoadSessionsCall
    \/ \E i \in Slots, ok \in BOOLEAN : LoadSessionsRead(i, ok)
    \/ \E i \in Slots, ok \in BOOLEAN : LoadSessionsPersisted(i, ok)
    \/ \E s \in SessionInputs : AddSessionCall(s)
    \/ \E id \in SessionIds, u \in SessionUpdates : UpdateSessionCall(id, u)
    \/ \E id \in SessionIds : RemoveSessionCall(id)
    \/ \E i \in Slots, ok \in BOOLEAN : SessionsWriteDone(i, ok)
    \/ \E id \in SessionIds : ExpiryEffect(id)
    \/ \E id \in SessionIds : RevokePress(id)
    \/ RevokeConfirm
    \/ RevokeDismiss
    \/ \E k \in SessionKeys : Transfer(k)
    \/ \E d \in TimeSteps : Advance(d)

SpecSessions == Init /\ [][NextSessions]_vars

\* the session lifecycle as SessionDetailScreen drives it over stored sessions
NextLifecycle ==
    \/ LoadSessionsCall
    \/ \E i \in Slots, ok \in BOOLEAN : LoadSessionsRead(i, ok)
    \/ \E i \in Slots, ok \in BOOLEAN : LoadSessionsPersisted(i, ok)
    \/ \E i \in Slots, ok \in BOOLEAN : SessionsWriteDone(i, ok)
    \/ \E id \in SessionIds : ExpiryEffect(id)
    \/ \E id \in SessionIds : RevokePress(id)
    \/ RevokeConfirm
    \/ RevokeDismiss
    \/ \E d \in TimeSteps : Advance(d)

SpecLifecycle == InitStored /\ [][NextLifecycle]_vars

\* AgentDetailScreen's unpair over both stores
NextUnpair ==
    \/ \E id \in AgentIds, name \in AgentNames : AddAgentCall(NewAgent(id, name))
    \/ \E s \in SessionInputs : AddSessionCall(s)
    \/ \E i \in Slots, ok \in BOOLEAN : AgentsWriteDone(i, ok)
    \/ \E i \in Slots, ok \in BOOLEAN : SessionsWriteDone(i, ok)
    \/ \E id \in AgentIds : UnpairPress(id)
    \/ \E i \in Slots, ok \in BOOLEAN : UnpairStatusDone(i, ok)
    \/ \E i \in Slots, ok \in BOOLEAN : UnpairSessionsDone(i, ok)
    \/ \E i \in Slots, ok \in BOOLEAN : UnpairAgentDone(i, ok)

SpecUnpair == Init /\ [][NextUnpair]_vars

\* PairAgentScreen and the agent store it writes to
NextPairing ==
    \/ \E c \in Codes : SetCode(c)
    \/ HandleSubmit
    \/ \E t \in timers : Tick(t)
    \/ \E r \in RequestIds : \E resp \in Responses(r) : PollResolved(r, resp)
    \/ \E r \in RequestIds, h \in HttpOutcomes : PollThrew(r, h)
    \/ \E i \in Slots, ok \in BOOLEAN : PollAddAgentDone(i, ok)
    \/ HandleRetry
    \/ \E d \in TimeSteps : Advance(d)

SpecPairing == Init /\ [][NextPairing]_vars

\* the API client's session.request under an agent's calls
NextApi ==
    \/ \E limits \in RequestLimits : SessionRequestCall(limits)
    \/ \E h \in HttpOutcomes : SessionRequestDone(h)

SpecApi == Init /\ [][NextApi]_vars

\* a session request and the ApproveSessionScreen that answers it
NextApprove ==
    \/ \E limits \in ValidRequestLimits : SessionRequestCall(limits)
    \/ \E h \in HttpOutcomes : SessionRequestDone(h)
    \/ LoadDetailsCall
    \/ \E st \in DetailsStatuses : LoadDetailsResolved(st)
    \/ \E h \in HttpOutcomes : LoadDetailsThrew(h)
    \/ ApproveRender
    \/ HandleApprove
    \/ ApproveResolved
    \/ \E h \in HttpOutcomes : ApproveThrew(h)
    \/ HandleReject
    \/ RejectResolved
    \/ \E h \in HttpOutcomes : RejectThrew(h)

SpecApprove == Init /\ [][NextApprove]_vars

\* useSessionStore recording what a session with two limited mints has spent
NextSpend ==
    \/ AddSessionCall(Session3)
    \/ \E u \in SpendUpdates : UpdateSessionCall(Session3.id, u)
    \/ \E i \in Slots, ok \in BOOLEAN : SessionsWriteDone(i, ok)

SpecSpend == Init /\ [][NextSpend]_vars

\* PairAgentScreen polling for one request, through failing and answered polls
\* and retries, over a SecureStore that accepts its writes
NextPolling ==
    \/ SetCode("r1")
    \/ HandleSubmit
    \/ \E t \in timers : Tick(t)
    \/ \E resp \in Responses("r1") : PollResolved("r1", resp)
    \/ \E h \in HttpOutcomes : PollThrew("r1", h)
    \/ \E i \in Slots : PollAddAgentDone(i, TRUE)
    \/ HandleRetry
    \/ \E d \in TimeSteps : Advance(d)

SpecPolling == Init /\ [][NextPolling]_vars

\* both stores loading from a SecureStore whose content can get corrupted
NextCorrupt ==
    \/ LoadAgentsCall
    \/ \E i \in Slots, ok \in BOOLEAN : LoadAgentsDone(i, ok)
    \/ LoadSessionsCall
    \/ \E i \in Slots, ok \in BOOLEAN : LoadSessionsRead(i, ok)
    \/ \E i \in Slots, ok \in BOOLEAN : LoadSessionsPersisted(i, ok)
    \/ \E key \in {AGENTS_STORAGE_KEY, SESSIONS_STORAGE_KEY} : CorruptStorage(key)
    \/ \E d \in TimeSteps : Advance(d)

SpecCorrupt == InitStored /\ [][NextCorrupt]_vars

\* removeAgent called directly over both stores
NextRemove ==
    \/ \E id \in AgentIds, name \in AgentNames : AddAgentCall(NewAgent(id, name))
    \/ \E s \in SessionInputs : AddSessionCall(s)
    \/ \E id \in AgentIds : RemoveAgentCall(id)
    \/ \E i \in Slots, ok \in BOOLEAN : AgentsWriteDone(i, ok)
    \/ \E i \in Slots, ok \in BOOLEAN : SessionsWriteDone(i, ok)

SpecRemove == Init /\ [][NextRemove]_vars

\* PairAgentScreen polling for one request until the caller navigates away
NextUnmount ==
    \/ SetCode("r1")
    \/ HandleSubmit
    \/ \E t \in timers : Tick(t)
    \/ \E resp \in Responses("r1") : PollResolved("r1", resp)
    \/ \E h \in HttpOutcomes : PollThrew("r1", h)
    \/ \E i \in Slots : PollAddAgentDone(i, TRUE)
    \/ HandleRetry
    \/ Unmount
    \/ \E d \in TimeSteps : Advance(d)

SpecUnmount == Init /\ [][NextUnmount]_vars

\* a later start of the app: records are added before and after the stores' loads
NextColdStart ==
    \/ LoadAgentsCall
    \/ \E i \in Slots, ok \in BOOLEAN : LoadAgentsDone(i, ok)
    \/ \E id \in AgentIds, name \in AgentNames : AddAgentCall(NewAgent(id, name))
    \/ \E s \in SessionInputs : AddSessionCall(s)
    \/ \E i \in Slots, ok \in BOOLEAN : AgentsWriteDone(i, ok)
    \/ \E i \in Slots, ok \in BOOLEAN : SessionsWriteDone(i, ok)

SpecColdStart == InitStored /\ [][NextColdStart]_vars

\* both stores under concurrent callers, over a SecureStore whose calls all succeed
NextConsistent ==
    \/ LoadAgentsCall
    \/ \E i \in Slots : LoadAgentsDone(i, TRUE)
    \/ \E id \in AgentIds, name \in AgentNames : AddAgentCall(NewAgent(id, name))
    \/ \E id \in AgentIds, st \in AgentStatus : UpdateAgentStatusCall(id, st)
    \/ \E id \in AgentIds : UpdateAgentLastSeenCall(id)
    \/ \E id \in AgentIds : RemoveAgentCall(id)
    \/ \E i \in Slots : AgentsWriteDone(i, TRUE)
    \/ LoadSessionsCall
    \/ \E i \in Slots : LoadSessionsRead(i, TRUE)
    \/ \E i \in Slots : LoadSessionsPersisted(i, TRUE)
    \/ \E s \in SessionInputs : AddSessionCall(s)
    \/ \E id \in SessionIds, u \in SessionUpdates : UpdateSessionCall(id, u)
    \/ \E id \in SessionIds : RemoveSessionCall(id)
    \/ \E id \in AgentIds : RemoveSessionsForAgentCall(id)
    \/ \E i \in Slots : SessionsWriteDone(i, TRUE)
    \/ \E d \in TimeSteps : Advance(d)

SpecConsistent == Init /\ [][NextConsistent]_vars

\* the eight writing operations of the two stores over a SecureStore whose
\* writes can fail
NextWrites ==
    \/ \E id \in AgentIds, name \in AgentNames : AddAgentCall(NewAgent(id, name))
    \/ \E id \in AgentIds : UpdateAgentStatusCall(id, "inactive")
    \/ \E id \in AgentIds : UpdateAgentLastSeenCall(id)
    \/ \E id \in AgentIds : RemoveAgentCall(id)
    \/ \E i \in Slots, ok \in BOOLEAN : AgentsWriteDone(i, ok)
    \/ \E s \in SessionInputs : AddSessionCall(s)
    \/ \E id \in SessionIds, u \in SessionUpdates : UpdateSessionCall(id, u)
    \/ \E id \in SessionIds : RemoveSessionCall(id)
    \/ \E id \in AgentIds : RemoveSessionsForAgentCall(id)
    \/ \E i \in Slots, ok \in BOOLEAN : SessionsWriteDone(i, ok)

SpecWrites == Init /\ [][NextWrites]_vars

\* PairAgentScreen polling for one request while time passes: the interval
\* timers keep firing, the clock keeps advancing and a SecureStore write that
\* was started completes; a status poll may fail or stay unanswered for ever.
\* The clock is observed when a run starts and just past its bound.
TimerFires == \E t \in timers : Tick(t)
TimePasses == Elapse(MAX_POLL_DURATION_MS + 1)
AddAgentSettles == \E i \in Slots : PollAddAgentDone(i, TRUE)
NextLive ==
    \/ SetCode("r1")
    \/ HandleSubmit
    \/ TimerFires
    \/ \E resp \in Responses("r1") : PollResolved("r1", resp)
    \/ \E h \in HttpOutcomes : PollThrew("r1", h)
    \/ AddAgentSettles
    \/ HandleRetry
    \/ TimePasses

SpecLive ==
    /\ Init
    /\ [][NextLive]_vars
    /\ WF_vars(TimerFires)
    /\ WF_vars(TimePasses)
    /\ WF_vars(AddAgentSettles)

(***************************************************************************)
(* Properties                                                              *)
(***************************************************************************)
Stored(key) == storage[key].value
Count(s, id) == Cardinality({i \in 1..Len(s) : s[i].id = id})
UniqueIds(s) == \A i, j \in 1..Len(s) : s[i].id = s[j].id => i = j
Live(s) == s.status \in {"pending", "active"}

\* C1: in every reachable state, an active session has spent[mint] <= the amount
\* of that mint's limit, for every limited mint.
C1_SpentWithinLimit ==
    \A i \in 1..Len(sessions) :
        sessions[i].status = "active" =>
            \A j \in 1..Len(sessions[i].limits) :
                LET limit == sessions[i].limits[j] IN
                limit.mint \in DOMAIN sessions[i].spent =>
                    sessions[i].spent[limit.mint] <= limit.amount

\* C2: a step never changes the status of a session whose status in the store is
\* expired, revoked or exhausted.
C2_TerminalStatusIsFinal ==
    [][\A i \in 1..Len(sessions) :
          sessions[i].status \in Terminal =>
              \A j \in 1..Len(sessions') :
                  sessions'[j].id = sessions[i].id =>
                      sessions'[j].status = sessions[i].status]_vars

\* C3: no transfer request is issued for a session key while the sessions the
\* store holds for that key are revoked.
Revoked(sessionPubkey) ==
    /\ \E i \in 1..Len(sessions) : sessions[i].sessionPubkey = sessionPubkey
    /\ \A i \in 1..Len(sessions) :
          sessions[i].sessionPubkey = sessionPubkey => sessions[i].status = "revoked"
C3_NoTransferAfterRevoke ==
    [][\A k \in SessionKeys : transfers'[k] > transfers[k] => ~Revoked(k)]_vars

\* C4: once a pairing has been cancelled (the screen is back to idle) no poll
\* timer is running.
C4_CancelStopsTimer == pairingState.status = "idle" => timers = {}

\* C5: whenever the pairing reports success, the registry and the persisted
\* Agents collection each hold exactly one record of the paired agent, with
\* status active and lastSeen null.
PairedOnce(as) ==
    /\ Count(as, pairedId) = 1
    /\ \A i \in 1..Len(as) :
          as[i].id = pairedId => as[i].status = "active" /\ as[i].lastSeen = Null
C5_ApprovedPersistedOnce ==
    pairingState.status = "success" =>
        PairedOnce(agents) /\ PairedOnce(Stored(AGENTS_STORAGE_KEY))

\* C6: the step that reports the timeout stops the current poll timer, the
\* timeout outcome differs from the expired outcome, and while the timeout is
\* reported only Try Again changes the pairing state and nothing is added to the
\* registry.
TimedOut == pairingState = PairError(TimedOutMessage)
C6_TimeoutIsFinal ==
    [][/\ TimedOutMessage # ExpiredMessage
       /\ (~TimedOut /\ TimedOut') => \A t \in timers' : t.id # pollIntervalRef
       /\ TimedOut => /\ pairingState' = pairingState \/ pairingState' = PairIdle
                      /\ agents' = agents]_vars

\* C7: at the step that completes an unpair, the agent is absent from the
\* registry and every session of that agent left in the store is revoked.
C7_UnpairLeavesNoOrphan ==
    [][(unpair.stage = "agent" /\ unpair'.stage = "done") =>
          /\ unpair.agentId \notin Ids(agents')
          /\ \A i \in 1..Len(sessions') :
                sessions'[i].agentId = unpair.agentId => sessions'[i].status = "revoked"]_vars

\* C8: every session in the Sessions collection has the agentId of an agent
\* present in the Agent Registry.
C8_SessionAgentExists ==
    \A i \in 1..Len(sessions) : sessions[i].agentId \in Ids(agents)

\* C9: agent ids are unique in the registry and in the persisted Agents
\* collection, and an addAgent that reports 'Agent already paired' leaves both
\* unchanged and starts no write.
C9_AgentIdsUnique ==
    /\ [](UniqueIds(agents) /\ UniqueIds(Stored(AGENTS_STORAGE_KEY)))
    /\ [][(agentsError' = "Agent already paired" /\ agentsError' # agentsError) =>
             /\ agents' = agents
             /\ storage' = storage
             /\ inflight' = inflight]_vars
\* a duplicate addAgent was turned down while the registry holds two agents
C9_Witness ==
    /\ agentsError = "Agent already paired"
    /\ Len(agents) = 2

\* C10: at most one session per (agentId, sessionPubkey) is pending or active.
C10_OneLiveSessionPerKey ==
    \A i, j \in 1..Len(sessions) :
        (/\ Live(sessions[i]) /\ Live(sessions[j])
         /\ sessions[i].agentId = sessions[j].agentId
         /\ sessions[i].sessionPubkey = sessions[j].sessionPubkey) => i = j

\* C11: the step in which loadSessions reads the stored sessions successfully
\* leaves no session active whose expiresAt is at or before the time of the
\* check (now >= expiresAt, the boundary now = expiresAt included).
LoadSessionsSucceeds ==
    /\ \E i \in Slots : inflight[i].op = "loadSessions" /\ inflight'[i].op # "loadSessions"
    /\ sessionsError' = NoError
C11_ExpiredAtBoundary ==
    [][LoadSessionsSucceeds =>
          \A j \in 1..Len(sessions') :
              ~(sessions'[j].status = "active" /\ now >= sessions'[j].expiresAt)]_vars

\* C12: when a session request with valid limits of unique mints was accepted
\* and the approve of the screen succeeds, the session store then holds a
\* session with these limits whose status is active and whose spent is 0 for
\* every limited mint.
UniqueMints(limits) ==
    \A i, j \in 1..Len(limits) : limits[i].mint = limits[j].mint => i = j
RequestAccepted ==
    /\ apiCall.stage = "done"
    /\ apiCall.outcome = "ok"
    /\ LimitsValid(apiCall.limits)
    /\ UniqueMints(apiCall.limits)
ApproveSucceeds ==
    /\ wire'["approve"] < wire["approve"]
    /\ approveState'.status = "approved"
C12_ApprovedSessionStored ==
    [][(RequestAccepted /\ ApproveSucceeds) =>
          \E i \in 1..Len(sessions') :
              /\ sessions'[i].status = "active"
              /\ Len(sessions'[i].limits) = Len(apiCall.limits)
              /\ \A j \in 1..Len(sessions'[i].limits) :
                    /\ sessions'[i].limits[j].mint = apiCall.limits[j].mint
                    /\ sessions'[i].spent[sessions'[i].limits[j].mint] = 0]_vars

FullySpent(s) ==
    \A j \in 1..Len(s.limits) : s.spent[s.limits[j].mint] = s.limits[j].amount
C14_ExhaustedWhenAllSpent ==
    \A i \in 1..Len(sessions) :
        sessions[i].status \in {"active", "exhausted"} =>
            (sessions[i].status = "exhausted" <=> FullySpent(sessions[i]))

\* C15: a session.request whose limits hold a negative amount, or a negative
\* or non-integer decimals, ends with ValidationError without any HTTP
\* request having been issued for it.
HasBadNumber(limits) ==
    \E i \in 1..Len(limits) :
        \/ limits[i].amount < 0
        \/ limits[i].decimals < 0
        \/ limits[i].decimals % Fraction # 0
C15_BadLimitsNotSent ==
    /\ [](HasBadNumber(apiCall.limits) =>
             /\ apiCall.stage = "done"
             /\ apiCall.outcome = "ValidationError"
             /\ apiCall.http = NoHttp)
    /\ [][(apiCall' # apiCall /\ HasBadNumber(apiCall'.limits)) => requests' = requests]_vars
\* a request with a bad number was turned down after an earlier one had been sent
C15_Witness ==
    /\ HasBadNumber(apiCall.limits)
    /\ apiCall.outcome = "ValidationError"
    /\ requests["/api/request-session"] = 1

\* C16: no HTTP request is issued for a session.request whose limits hold two
\* entries with the same mint; the call ends with ValidationError.
C16_DuplicateMintNotSent ==
    /\ [](~UniqueMints(apiCall.limits) =>
             apiCall.stage = "done" /\ apiCall.outcome = "ValidationError")
    /\ [][(apiCall' # apiCall /\ ~UniqueMints(apiCall'.limits)) => requests' = requests]_vars

\* C17: a status poll that fails with a network error changes neither the
\* pairing state nor the timers nor the registry, and polling only goes from
\* polling to an outcome in a poll that saw approved, rejected or expired, or
\* that found the wall-clock bound exceeded.
PollFailedWith(class) ==
    /\ \E r \in RequestIds : polls'[r] < polls[r]
    /\ pollOutcome' = class
C17_NetworkErrorKeepsPolling ==
    [][/\ PollFailedWith("NetworkError") =>
             /\ pairingState' = pairingState
             /\ timers' = timers
             /\ pollIntervalRef' = pollIntervalRef
             /\ agents' = agents
             /\ inflight' = inflight
       /\ (pairingState.status = "polling" /\ pairingState'.status \in {"success", "error"}) =>
             pollOutcome' \in {"approved", "rejected", "expired", "timeout"}]_vars
\* a poll has failed with a network error and the pairing is still polling,
\* its interval timer set
C17_Witness ==
    /\ pollOutcome = "NetworkError"
    /\ pairingState.status = "polling"
    /\ \E t \in timers : t.id = pollIntervalRef /\ t.requestId = pairingState.requestId

\* C18: a poll that fails with a ValidationError ends the pairing with an
\* error shown and its interval timer cleared.
C18_ValidationErrorSurfaced ==
    [][PollFailedWith("ValidationError") =>
          /\ pairingState'.status = "error"
          /\ \A t \in timers' : t.id # pollIntervalRef]_vars

\* C19: of an answered request, NetworkError is the outcome exactly when fetch
\* failed to connect; a 2xx response whose body is not JSON or does not match
\* the schema gives ValidationError, and a non-2xx response with a JSON body
\* gives OdysseyApiError.
C19_ErrorClasses ==
    (apiCall.stage = "done" /\ apiCall.http # NoHttp) =>
        LET h == apiCall.http IN
        /\ apiCall.outcome = "NetworkError" <=> h.fetch = "TypeError"
        /\ (h.fetch = "resolved" /\ h.ok /\ ~(h.json /\ h.valid)) =>
               apiCall.outcome = "ValidationError"
        /\ (h.fetch = "resolved" /\ h.json /\ ~h.ok) => apiCall.outcome = "OdysseyApiError"

\* C20: a load that ends on stored JSON that fails to parse leaves the
\* in-memory collection empty, isLoading false and the error set.
LoadEndsOnParseFailure(op, key, error) ==
    /\ \E i \in Slots : inflight[i].op = op /\ inflight'[i].op = "idle"
    /\ storage[key] = CorruptItem
    /\ error = ParseFailure
C20_ParseFailureEmptiesCollection ==
    [][/\ LoadEndsOnParseFailure("loadAgents", AGENTS_STORAGE_KEY, agentsError') =>
             agents' = <<>> /\ ~agentsLoading' /\ agentsError' # NoError
       /\ LoadEndsOnParseFailure("loadSessions", SESSIONS_STORAGE_KEY, sessionsError') =>
             sessions' = <<>> /\ ~sessionsLoading' /\ sessionsError' # NoError]_vars

\* C21: a removeAgent of an agent for which the session store holds an active
\* session starts no storage write, and the step in which a removeAgent
\* completes removes no such agent from the registry.
HasActiveSession(agentId) ==
    \E i \in 1..Len(sessions) : sessions[i].agentId = agentId /\ sessions[i].status = "active"
C21_RemoveAgentNeedsRevocation ==
    [][\A id \in AgentIds :
          (id \in Ids(agents) /\ HasActiveSession(id)) =>
              \A i \in Slots :
                  /\ ~(/\ inflight[i].op = "idle"
                       /\ inflight'[i].op = "removeAgent"
                       /\ inflight'[i].payload = RemoveAgentUpdated(agents, id))
                  /\ (inflight[i].op = "removeAgent" /\ inflight'[i].op = "idle") =>
                         id \in Ids(agents')]_vars

\* C22: once the pairing screen is unmounted no interval timer fires (no poll is
\* started, no timeout is reported), no addAgent is started and no agent is
\* added to the registry.
C22_NothingAfterUnmount ==
    [][~mounted =>
          /\ \A r \in RequestIds : polls'[r] <= polls[r]
          /\ pollOutcome' # "timeout"
          /\ \A i \in Slots : inflight'[i].op = "addAgent" => inflight[i].op = "addAgent"
          /\ agents' = agents]_vars

\* C23: at most one operation on the Agents collection, and at most one on the
\* Sessions collection, is between taking its snapshot and committing its write.
Writing(ops) == {i \in Slots : inflight[i].op \in ops}
C23_WritersSerialized ==
    /\ Cardinality(Writing(AgentWriteOps)) <= 1
    /\ Cardinality(Writing(SessionWriteOps \cup {"loadSessionsPersist"})) <= 1

\* C24: the step in which an add or an update operation writes a collection
\* keeps every record that was persisted in it before the write.
Completes(ops) == \E i \in Slots : inflight[i].op \in ops /\ inflight'[i].op # inflight[i].op
C24_WriteKeepsPersistedRecords ==
    [][/\ Completes({"addAgent", "updateAgentStatus", "updateAgentLastSeen"}) =>
             Ids(Stored(AGENTS_STORAGE_KEY)) \subseteq Ids(storage'[AGENTS_STORAGE_KEY].value)
       /\ Completes({"addSession", "updateSession"}) =>
             Ids(Stored(SESSIONS_STORAGE_KEY)) \subseteq Ids(storage'[SESSIONS_STORAGE_KEY].value)]_vars

\* C25: when the step in which loadSessions sets the in-memory sessions makes a
\* session expired, the persisted Sessions collection records that session as
\* expired in the same state.
HasStatus(ss, id, status) ==
    \E k \in 1..Len(ss) : ss[k].id = id /\ ss[k].status = status
C25_ExpiryPersistedBeforeVisible ==
    [][LoadSessionsSucceeds =>
          \A j \in 1..Len(sessions') :
              sessions'[j].status = "expired" =>
                  HasStatus(storage'[SESSIONS_STORAGE_KEY].value, sessions'[j].id, "expired")]_vars

\* C26: a session that the persisted Sessions collection records as revoked
\* (its revocation has completed) is recorded as revoked after every later step.
C26_RevocationDurable ==
    [][\A id \in SessionIds :
          HasStatus(Stored(SESSIONS_STORAGE_KEY), id, "revoked") =>
              HasStatus(storage'[SESSIONS_STORAGE_KEY].value, id, "revoked")]_vars

\* C27: whenever no store operation is in flight (and, no storage call ever
\* failing, none has failed since the last load), the in-memory agents equal
\* the persisted Agents collection and the in-memory sessions equal the
\* persisted Sessions collection.
C27_MemoryEqualsPersisted ==
    (\A i \in Slots : inflight[i] = Idle) =>
        /\ agents = Stored(AGENTS_STORAGE_KEY)
        /\ sessions = Stored(SESSIONS_STORAGE_KEY)

\* C28: at most one interval timer of the pairing screen is live.
C28_OnePollTimer == Cardinality(timers) <= 1

\* C29: in the step in which a writing operation of a store ends without its
\* write having taken effect (setItemAsync rejected), the operation returns,
\* the in-memory collection of the store is unchanged and the store's error is
\* a message.
WriteFails(i, ops, key) ==
    /\ inflight[i].op \in ops
    /\ inflight'[i] = Idle
    /\ storage'[key] # Json(inflight[i].payload)
C29_FailedWriteLeavesMemory ==
    [][\A i \in Slots :
          /\ WriteFails(i, AgentWriteOps, AGENTS_STORAGE_KEY) =>
                agents' = agents /\ agentsError' # NoError
          /\ WriteFails(i, SessionWriteOps, SESSIONS_STORAGE_KEY) =>
                sessions' = sessions /\ sessionsError' # NoError]_vars
\* a write of each store has failed after an earlier one had put a record in
\* its collection
C29_Witness ==
    /\ agentsError = StorageFailure
    /\ sessionsError = StorageFailure
    /\ Len(agents) = 1
    /\ Len(sessions) = 1
    /\ Stored(AGENTS_STORAGE_KEY) = agents
    /\ Stored(SESSIONS_STORAGE_KEY) = sessions

\* C30: a pairing run that is polling eventually leaves the polling state, for
\* success or an error outcome unless it was cancelled (back to idle), whatever
\* happens to its status polls.
C30_PollingEnds ==
    (pairingState.status = "polling") ~>
        (pairingState.status \in {"success", "error"} \/ pairingState = PairIdle)
\* the timeout was reported while a status poll was still unanswered
C30_Witness ==
    /\ pairingState = PairError(TimedOutMessage)
    /\ polls["r1"] > 0
    /\ agents = <<>>

====
